---- MODULE Spec2Model ----
(***************************************************************************)
(* Verification model of the student check-in service (src/src/entry.py):  *)
(* the SimpleEncryption name obfuscation, the DatabaseManager operations   *)
(* over the three tables students / spaces / check_ins, and the request    *)
(* dispatcher Default.fetch with its handlers.                             *)
(*                                                                         *)
(* Text is modelled as a sequence of Unicode code points, bytes as a       *)
(* sequence of numbers 0..255.                                             *)
(***************************************************************************)
EXTENDS Integers, Sequences, FiniteSets, TLC

(***************************************************************************)
(* Generic helpers for Python's str / bytes operations.                    *)
(***************************************************************************)

\* The value standing for a raised Python exception in a pure computation
\* (no text or byte string holds a negative number).
Raised == <<-1>>

\* str.startswith(prefix)
StartsWith(s, prefix) ==
    /\ Len(s) >= Len(prefix)
    /\ SubSeq(s, 1, Len(prefix)) = prefix

\* s[n:] of Python
DropFirst(s, n) == IF Len(s) <= n THEN <<>> ELSE SubSeq(s, n + 1, Len(s))

\* a ^ b of Python on numbers below 2^bits
RECURSIVE BitXor(_, _, _)
BitXor(a, b, bits) ==
    IF bits = 0 THEN 0
    ELSE (((a % 2) + (b % 2)) % 2) + 2 * BitXor(a \div 2, b \div 2, bits - 1)

\* a | b of Python: what the cipher computes if | is written for ^
RECURSIVE BitOr(_, _, _)
BitOr(a, b, bits) ==
    IF bits = 0 THEN 0
    ELSE (IF (a % 2) + (b % 2) > 0 THEN 1 ELSE 0) + 2 * BitOr(a \div 2, b \div 2, bits - 1)

(***************************************************************************)
(* str.encode('utf-8') and bytes.decode('utf-8')                           *)
(***************************************************************************)

IsSurrogate(cp) == cp >= 55296 /\ cp <= 57343

\* the UTF-8 bytes of one code point (surrogates cannot be encoded)
Utf8Char(cp) ==
    IF cp < 128 THEN <<cp>>
    ELSE IF cp < 2048 THEN <<192 + (cp \div 64), 128 + (cp % 64)>>
    ELSE IF cp < 65536 THEN
        <<224 + (cp \div 4096), 128 + ((cp \div 64) % 64), 128 + (cp % 64)>>
    ELSE <<240 + (cp \div 262144), 128 + ((cp \div 4096) % 64),
           128 + ((cp \div 64) % 64), 128 + (cp % 64)>>

RECURSIVE Utf8EncodeFrom(_, _, _)
Utf8EncodeFrom(s, i, acc) ==
    IF i > Len(s) THEN acc
    ELSE IF IsSurrogate(s[i]) THEN Raised
    ELSE Utf8EncodeFrom(s, i + 1, acc \o Utf8Char(s[i]))

Utf8Encode(s) == Utf8EncodeFrom(s, 1, <<>>)

IsCont(b, i) == i <= Len(b) /\ b[i] >= 128 /\ b[i] <= 191

\* strict decoding: overlong forms, surrogates, stray or missing continuation
\* bytes and values above U+10FFFF raise UnicodeDecodeError
RECURSIVE Utf8DecodeFrom(_, _, _)
Utf8DecodeFrom(b, i, acc) ==
    IF i > Len(b) THEN acc
    ELSE IF b[i] < 128 THEN Utf8DecodeFrom(b, i + 1, Append(acc, b[i]))
    ELSE IF b[i] >= 194 /\ b[i] <= 223 /\ IsCont(b, i + 1) THEN
        Utf8DecodeFrom(b, i + 2, Append(acc, (b[i] - 192) * 64 + (b[i + 1] - 128)))
    ELSE IF b[i] >= 224 /\ b[i] <= 239 /\ IsCont(b, i + 1) /\ IsCont(b, i + 2) THEN
        LET cp == (b[i] - 224) * 4096 + (b[i + 1] - 128) * 64 + (b[i + 2] - 128)
        IN  IF cp < 2048 \/ IsSurrogate(cp) THEN Raised
            ELSE Utf8DecodeFrom(b, i + 3, Append(acc, cp))
    ELSE IF b[i] >= 240 /\ b[i] <= 244 /\ IsCont(b, i + 1) /\ IsCont(b, i + 2)
                                       /\ IsCont(b, i + 3) THEN
        LET cp == (b[i] - 240) * 262144 + (b[i + 1] - 128) * 4096
                  + (b[i + 2] - 128) * 64 + (b[i + 3] - 128)
        IN  IF cp < 65536 \/ cp > 1114111 THEN Raised
            ELSE Utf8DecodeFrom(b, i + 4, Append(acc, cp))
    ELSE Raised

Utf8Decode(b) == Utf8DecodeFrom(b, 1, <<>>)

(***************************************************************************)
(* base64.b64encode and base64.b64decode                                   *)
(***************************************************************************)

\* the character of the Base64 alphabet with value v (0..63)
B64Char(v) ==
    IF v < 26 THEN 65 + v
    ELSE IF v < 52 THEN 97 + (v - 26)
    ELSE IF v < 62 THEN 48 + (v - 52)
    ELSE IF v = 62 THEN 43
    ELSE 47

\* the value of a character of the Base64 alphabet, 64 for any other byte
B64Value(c) ==
    IF c >= 65 /\ c <= 90 THEN c - 65
    ELSE IF c >= 97 /\ c <= 122 THEN c - 97 + 26
    ELSE IF c >= 48 /\ c <= 57 THEN c - 48 + 52
    ELSE IF c = 43 THEN 62
    ELSE IF c = 47 THEN 63
    ELSE 64

RECURSIVE B64EncodeFrom(_, _, _)
B64EncodeFrom(b, i, acc) ==
    IF i > Len(b) THEN acc
    ELSE IF i + 2 <= Len(b) THEN
        B64EncodeFrom(b, i + 3, acc \o
            << B64Char(b[i] \div 4),
               B64Char((b[i] % 4) * 16 + (b[i + 1] \div 16)),
               B64Char((b[i + 1] % 16) * 4 + (b[i + 2] \div 64)),
               B64Char(b[i + 2] % 64) >>)
    ELSE IF i + 1 = Len(b) THEN
        acc \o << B64Char(b[i] \div 4),
                  B64Char((b[i] % 4) * 16 + (b[i + 1] \div 16)),
                  B64Char((b[i + 1] % 16) * 4),
                  61 >>
    ELSE
        acc \o << B64Char(b[i] \div 4), B64Char((b[i] % 4) * 16), 61, 61 >>

\* base64.b64encode(data).decode('utf-8')
B64Encode(b) == B64EncodeFrom(b, 1, <<>>)

\* binascii.a2b_base64 in its default, non-strict mode: bytes outside the
\* alphabet are skipped, enough padding at quad position 2 or 3 ends the
\* input, and an incomplete final quad raises binascii.Error
RECURSIVE B64DecodeFrom(_, _, _, _, _, _)
B64DecodeFrom(d, i, quad, left, pads, acc) ==
    IF i > Len(d) THEN (IF quad # 0 THEN Raised ELSE acc)
    ELSE IF d[i] = 61 THEN
        IF quad >= 2 /\ quad + pads + 1 >= 4 THEN acc
        ELSE B64DecodeFrom(d, i + 1, quad, left,
                           IF quad >= 2 THEN pads + 1 ELSE pads, acc)
    ELSE IF B64Value(d[i]) >= 64 THEN B64DecodeFrom(d, i + 1, quad, left, pads, acc)
    ELSE LET v == B64Value(d[i])
         IN  CASE quad = 0 -> B64DecodeFrom(d, i + 1, 1, v, 0, acc)
               [] quad = 1 -> B64DecodeFrom(d, i + 1, 2, v % 16, 0,
                                            Append(acc, left * 4 + (v \div 16)))
               [] quad = 2 -> B64DecodeFrom(d, i + 1, 3, v % 4, 0,
                                            Append(acc, left * 16 + (v \div 4)))
               [] OTHER    -> B64DecodeFrom(d, i + 1, 0, 0, 0,
                                            Append(acc, left * 64 + v))

B64Decode(d) == B64DecodeFrom(d, 1, 0, 0, 0, <<>>)

(***************************************************************************)
(* class SimpleEncryption                                                  *)
(***************************************************************************)

\* the "ENC:" prefix that marks an encrypted name
ENC_PREFIX == <<69, 78, 67, 58>>

\* hashlib.sha256(key.encode('utf-8')).digest() for the two keys the source
\* names: the fallback key of fetch and the default of the constructor
Sha256Digest(key) ==
    IF key = "student-checkin-secure-2024" THEN
        << 188, 125, 137, 75, 55, 76, 196, 25, 82, 22, 197, 76, 230, 204, 60, 126,
           153, 253, 46, 5, 0, 170, 42, 93, 241, 198, 56, 242, 224, 230, 10, 144 >>
    ELSE \* "student-checkin-key-2024"
        << 245, 178, 4, 252, 184, 50, 130, 107, 225, 153, 131, 107, 184, 88, 172, 73,
           59, 43, 250, 86, 59, 194, 188, 104, 49, 204, 115, 214, 77, 209, 246, 12 >>

EncryptionKeys == {"student-checkin-secure-2024", "student-checkin-key-2024"}

\* the key fetch uses when the environment sets no ENCRYPTION_KEY
DefaultKey == "student-checkin-secure-2024"

\* a slip in the cipher: OR in place of XOR, which is not its own inverse
xor_encrypt_decrypt_or(data, key) ==
    [i \in 1..Len(data) |-> BitOr(data[i], key[((i - 1) % Len(key)) + 1], 8)]

\* SimpleEncryption._xor_encrypt_decrypt
xor_encrypt_decrypt(data, key) ==
    [i \in 1..Len(data) |-> BitXor(data[i], key[((i - 1) % Len(key)) + 1], 8)]

\* SimpleEncryption.encrypt_name: any exception falls back to the plain name
encrypt_name(name, key) ==
    LET name_bytes == Utf8Encode(name)
    IN  IF name_bytes = Raised THEN name
        ELSE LET encrypted_bytes == xor_encrypt_decrypt(name_bytes, Sha256Digest(key))
                 encoded == Utf8Decode(B64Encode(encrypted_bytes))
             IN  ENC_PREFIX \o encoded

\* SimpleEncryption.decrypt_name: any exception returns the argument as it is
decrypt_name(encrypted_name, key) ==
    IF ~StartsWith(encrypted_name, ENC_PREFIX) THEN encrypted_name
    ELSE LET encoded_data == DropFirst(encrypted_name, 4)
             encoded_bytes == Utf8Encode(encoded_data)
             encrypted_bytes == IF encoded_bytes = Raised THEN Raised
                                ELSE B64Decode(encoded_bytes)
             decrypted_bytes == IF encrypted_bytes = Raised THEN Raised
                                ELSE xor_encrypt_decrypt(encrypted_bytes, Sha256Digest(key))
             decoded == IF decrypted_bytes = Raised THEN Raised
                        ELSE Utf8Decode(decrypted_bytes)
         IN  IF decoded = Raised THEN encrypted_name ELSE decoded

\* a test that takes every stored name for plain text
is_encrypted_never(name) == FALSE

\* SimpleEncryption.is_encrypted
is_encrypted(name) == StartsWith(name, ENC_PREFIX)

\* the methods class SimpleEncryption defines
SimpleEncryptionMethods ==
    { "_xor_encrypt_decrypt", "encrypt_name", "decrypt_name", "is_encrypted",
      "format_display_name" }

(***************************************************************************)
(* The database: the three tables of init_database and SQLite's            *)
(* AUTOINCREMENT counters.  db is a record                                 *)
(*   students  : rows [student_id, student_number, encrypted_name]         *)
(*   spaces    : rows [space_id, space_name, description]                  *)
(*   check_ins : rows [log_id, student_id, space_id, time_in, time_out]    *)
(*   seq       : the last id AUTOINCREMENT gave out, per table             *)
(***************************************************************************)

\* time_out DATETIME NULL: the value of a row that is still open
NULL == 0

\* Python's None
None == <<-2>>

EmptyDb ==
    [ students  |-> {},
      spaces    |-> {},
      check_ins |-> {},
      seq       |-> [students |-> 0, spaces |-> 0, check_ins |-> 0] ]

\* the converted_result of execute_query, with the database the statement left
Result(d, success, results, changes) ==
    [db |-> d, success |-> success, results |-> results, changes |-> changes]

\* D1 raises for the statement: execute_query catches it and reports failure
Failure(d) == Result(d, FALSE, <<>>, 0)

\* DatabaseManager.execute_query: ok is FALSE when the database binding raises
\* for a reason other than a constraint (the statement then has no effect)
execute_query(ok, d, outcome) == IF ok THEN outcome ELSE Failure(d)

\* a check_ins table created without its FOREIGN KEY clauses
ForeignKeysOff(d) == TRUE

\* FOREIGN KEY (student_id) REFERENCES students, (space_id) REFERENCES spaces:
\* the constraints of check_ins, which the database enforces on every write
ForeignKeysHold(d) ==
    \A ci \in d.check_ins :
        /\ \E st \in d.students : st.student_id = ci.student_id
        /\ \E sp \in d.spaces : sp.space_id = ci.space_id

\* a students table created without UNIQUE on student_number
StudentNumberFree(d) == TRUE

\* a spaces table created without UNIQUE on space_name
SpaceNameFree(d) == TRUE

\* student_number TEXT UNIQUE
StudentNumberUnique(d) ==
    \A a, b \in d.students : a.student_number = b.student_number => a = b

\* space_name TEXT UNIQUE
SpaceNameUnique(d) ==
    \A a, b \in d.spaces : a.space_name = b.space_name => a = b

\* a write statement takes effect only if the table constraints still hold
Constrained(d, after, changes) ==
    IF ForeignKeysHold(after) /\ StudentNumberUnique(after) /\ SpaceNameUnique(after)
    THEN Result(after, TRUE, <<>>, changes)
    ELSE Failure(d)

\* INSERT INTO students (student_number, encrypted_name) VALUES (?, ?)
SqlInsertStudent(d, student_number, encrypted_name) ==
    LET id  == d.seq.students + 1
        row == [student_id |-> id, student_number |-> student_number,
                encrypted_name |-> encrypted_name]
    IN  Constrained(d, [d EXCEPT !.students = @ \cup {row}, !.seq.students = id], 1)

\* SELECT * FROM students WHERE student_number = ?
SqlSelectStudent(d, student_number) ==
    LET rows == {st \in d.students : st.student_number = student_number}
    IN  Result(d, TRUE, IF rows = {} THEN <<>> ELSE <<CHOOSE st \in rows : TRUE>>, 0)

\* INSERT INTO spaces (space_name, description) VALUES (?, ?)
SqlInsertSpace(d, space_name, description) ==
    LET id  == d.seq.spaces + 1
        row == [space_id |-> id, space_name |-> space_name, description |-> description]
    IN  Constrained(d, [d EXCEPT !.spaces = @ \cup {row}, !.seq.spaces = id], 1)

\* UPDATE spaces SET space_name = ?, description = ? WHERE space_id = ?
SqlUpdateSpace(d, space_name, description, space_id) ==
    LET hit   == {sp \in d.spaces : sp.space_id = space_id}
        after == {IF sp \in hit
                  THEN [sp EXCEPT !.space_name = space_name, !.description = description]
                  ELSE sp : sp \in d.spaces}
    IN  Constrained(d, [d EXCEPT !.spaces = after], Cardinality(hit))

\* a DELETE the database carries out whatever rows still refer to the space
SqlDeleteSpace_unconstrained(d, space_id) ==
    LET hit == {sp \in d.spaces : sp.space_id = space_id}
    IN  Result([d EXCEPT !.spaces = @ \ hit], TRUE, <<>>, Cardinality(hit))

\* DELETE FROM spaces WHERE space_id = ?
SqlDeleteSpace(d, space_id) ==
    LET hit == {sp \in d.spaces : sp.space_id = space_id}
    IN  Constrained(d, [d EXCEPT !.spaces = @ \ hit], Cardinality(hit))

\* SELECT COUNT(*) as count FROM check_ins WHERE space_id = ? AND time_out IS NULL
SqlCountActiveInSpace(d, space_id) ==
    Result(d, TRUE,
           <<[count |-> Cardinality({ci \in d.check_ins :
                           ci.space_id = space_id /\ ci.time_out = NULL})]>>, 0)

\* SELECT COUNT(*) as count FROM check_ins
\*  WHERE student_id = ? AND time_out IS NULL: the count without its space_id
SqlCountCheckedIn_anywhere(d, student_id, space_id) ==
    Result(d, TRUE,
           <<[count |-> Cardinality({ci \in d.check_ins :
                           /\ ci.student_id = student_id
                           /\ ci.time_out = NULL})]>>, 0)

\* SELECT COUNT(*) as count FROM check_ins
\*  WHERE student_id = ? AND space_id = ? AND time_out IS NULL
SqlCountCheckedIn(d, student_id, space_id) ==
    Result(d, TRUE,
           <<[count |-> Cardinality({ci \in d.check_ins :
                           /\ ci.student_id = student_id
                           /\ ci.space_id = space_id
                           /\ ci.time_out = NULL})]>>, 0)

\* INSERT INTO check_ins (student_id, space_id, time_in) VALUES (?, ?, ?)
SqlInsertCheckin(d, student_id, space_id, time_in) ==
    LET id  == d.seq.check_ins + 1
        row == [log_id |-> id, student_id |-> student_id, space_id |-> space_id,
                time_in |-> time_in, time_out |-> NULL]
    IN  Constrained(d, [d EXCEPT !.check_ins = @ \cup {row}, !.seq.check_ins = id], 1)

\* the row ORDER BY time_in DESC LIMIT 1 keeps (the newest log_id among equals)
Latest(rows) ==
    CHOOSE r \in rows : \A o \in rows :
        \/ o.time_in < r.time_in
        \/ o.time_in = r.time_in /\ o.log_id <= r.log_id

\* SELECT ci.*, sp.space_name FROM check_ins ci JOIN spaces sp ON ...
\*  WHERE ci.student_id = ? AND ci.time_out IS NULL ORDER BY ci.time_in DESC LIMIT 1
SqlSelectCurrentCheckin(d, student_id) ==
    LET rows == {ci \in d.check_ins :
                    /\ ci.student_id = student_id
                    /\ ci.time_out = NULL
                    /\ \E sp \in d.spaces : sp.space_id = ci.space_id}
        name(ci) == (CHOOSE sp \in d.spaces : sp.space_id = ci.space_id).space_name
    IN  Result(d, TRUE,
               IF rows = {} THEN <<>>
               ELSE <<[log_id |-> Latest(rows).log_id,
                       space_id |-> Latest(rows).space_id,
                       time_in |-> Latest(rows).time_in,
                       space_name |-> name(Latest(rows))]>>, 0)

\* UPDATE check_ins SET time_out = ? WHERE student_id = ? AND time_out IS NULL
SqlCheckoutFromAllSpaces(d, time_out, student_id) ==
    LET hit == {ci \in d.check_ins : ci.student_id = student_id /\ ci.time_out = NULL}
    IN  Result([d EXCEPT !.check_ins =
                   {IF ci \in hit THEN [ci EXCEPT !.time_out = time_out] ELSE ci
                       : ci \in d.check_ins}],
               TRUE, <<>>, Cardinality(hit))

\* the slip of a bulk UPDATE that forgets "WHERE time_out IS NULL"
SqlCheckoutAll_reclose(d, time_out) ==
    Result([d EXCEPT !.check_ins = {[ci EXCEPT !.time_out = time_out] : ci \in d.check_ins}],
           TRUE, <<>>, Cardinality(d.check_ins))

\* a bulk UPDATE that stops after the open row with the lowest log_id
SqlCheckoutAll_first(d, time_out) ==
    LET open == {ci \in d.check_ins : ci.time_out = NULL}
        hit == {ci \in open : \A cj \in open : ci.log_id <= cj.log_id}
    IN  Result([d EXCEPT !.check_ins =
                   {IF ci \in hit THEN [ci EXCEPT !.time_out = time_out] ELSE ci
                       : ci \in d.check_ins}],
               TRUE, <<>>, Cardinality(hit))

\* UPDATE check_ins SET time_out = ? WHERE time_out IS NULL
SqlCheckoutAll(d, time_out) ==
    LET hit == {ci \in d.check_ins : ci.time_out = NULL}
    IN  Result([d EXCEPT !.check_ins =
                   {IF ci \in hit THEN [ci EXCEPT !.time_out = time_out] ELSE ci
                       : ci \in d.check_ins}],
               TRUE, <<>>, Cardinality(hit))

\* UPDATE check_ins SET time_out = ? WHERE student_id = ? AND space_id = ?
\*  AND time_out IS NULL ORDER BY time_in DESC LIMIT 1
SqlCheckoutStudent(d, time_out, student_id, space_id) ==
    LET rows == {ci \in d.check_ins :
                    /\ ci.student_id = student_id
                    /\ ci.space_id = space_id
                    /\ ci.time_out = NULL}
        hit  == IF rows = {} THEN {} ELSE {Latest(rows)}
    IN  Result([d EXCEPT !.check_ins =
                   {IF ci \in hit THEN [ci EXCEPT !.time_out = time_out] ELSE ci
                       : ci \in d.check_ins}],
               TRUE, <<>>, Cardinality(hit))

(***************************************************************************)
(* class DatabaseManager.  Each method takes the database d and, for each  *)
(* statement it issues, whether execute_query gets an answer (ok); a       *)
(* method that stamps a row reads the clock, which moves on at every read. *)
(***************************************************************************)

\* datetime.utcnow(): a later reading is a later time
utcnow(clock) == clock + 1

\* the methods class DatabaseManager defines
DatabaseManagerMethods ==
    { "execute_query", "create_student", "get_student_by_number", "get_all_students",
      "search_students", "get_all_spaces", "create_space", "update_space",
      "delete_space", "create_checkin", "get_student_current_checkin",
      "checkout_from_all_spaces", "checkout_all_students", "checkout_student",
      "get_current_checkins", "is_student_checked_in" }

\* the methods class Default defines
DefaultMethods ==
    { "fetch", "test_encryption", "migrate_to_encryption", "add_test_students",
      "handle_search", "debug_database", "init_database", "list_students",
      "current_checkins", "quick_checkin", "quick_checkout", "bulk_checkout_all",
      "list_spaces", "create_space_endpoint", "update_space_endpoint",
      "delete_space_endpoint", "serve_web_interface", "serve_admin_dashboard" }

\* DatabaseManager.create_student
create_student(d, ok, student_number, plain_name, key) ==
    LET result == execute_query(ok, d,
                      SqlInsertStudent(d, student_number, encrypt_name(plain_name, key)))
    IN  [db |-> result.db, ret |-> result.success]

\* DatabaseManager.get_student_by_number: <<row>>, or <<>> for None
get_student_by_number(d, ok, student_number) ==
    LET result == execute_query(ok, d, SqlSelectStudent(d, student_number))
    IN  IF result.success /\ result.results # <<>> THEN <<result.results[1]>> ELSE <<>>

\* DatabaseManager.create_space
create_space(d, ok, space_name, description) ==
    LET result == execute_query(ok, d, SqlInsertSpace(d, space_name, description))
    IN  [db |-> result.db, ret |-> result.success]

\* DatabaseManager.update_space
update_space(d, ok, space_id, space_name, description) ==
    LET result == execute_query(ok, d, SqlUpdateSpace(d, space_name, description, space_id))
    IN  [db |-> result.db, ret |-> result.success /\ result.changes > 0]

\* DatabaseManager.delete_space
delete_space(d, okCheck, okDelete, space_id) ==
    LET check_result == execute_query(okCheck, d, SqlCountActiveInSpace(d, space_id))
        result == execute_query(okDelete, d, SqlDeleteSpace(d, space_id))
    IN  IF /\ check_result.success
           /\ check_result.results # <<>>
           /\ check_result.results[1].count > 0
        THEN [db |-> d, success |-> FALSE, error |-> "active check-ins"]
        ELSE IF result.success /\ result.changes > 0
             THEN [db |-> result.db, success |-> TRUE, error |-> ""]
             ELSE [db |-> result.db, success |-> FALSE, error |-> "not found"]

\* a create_checkin that reports success for an INSERT that was never run
create_checkin_lost(d, ok, clock, student_id, space_id) ==
    [db |-> d, clock |-> utcnow(clock), ret |-> TRUE]

\* DatabaseManager.create_checkin
create_checkin(d, ok, clock, student_id, space_id) ==
    LET current_time == utcnow(clock)
        result == execute_query(ok, d, SqlInsertCheckin(d, student_id, space_id, current_time))
    IN  [db |-> result.db, clock |-> current_time, ret |-> result.success]

\* DatabaseManager.get_student_current_checkin: <<joined row>>, or <<>> for None
get_student_current_checkin(d, ok, student_id) ==
    LET result == execute_query(ok, d, SqlSelectCurrentCheckin(d, student_id))
    IN  IF result.success /\ result.results # <<>> THEN <<result.results[1]>> ELSE <<>>

\* a checkout_from_all_spaces whose UPDATE matches no row
checkout_from_all_spaces_none(d, ok, clock, student_id) ==
    [db |-> d, clock |-> utcnow(clock), ret |-> 0]

\* DatabaseManager.checkout_from_all_spaces
checkout_from_all_spaces(d, ok, clock, student_id) ==
    LET current_time == utcnow(clock)
        result == execute_query(ok, d, SqlCheckoutFromAllSpaces(d, current_time, student_id))
    IN  [db |-> result.db, clock |-> current_time, ret |-> result.changes]

\* DatabaseManager.checkout_all_students
checkout_all_students(d, ok, clock) ==
    LET current_time == utcnow(clock)
        result == execute_query(ok, d, SqlCheckoutAll(d, current_time))
    IN  [db |-> result.db, clock |-> current_time, ret |-> result.changes]

\* DatabaseManager.checkout_student
checkout_student(d, ok, clock, student_id, space_id) ==
    LET current_time == utcnow(clock)
        result == execute_query(ok, d,
                      SqlCheckoutStudent(d, current_time, student_id, space_id))
    IN  [db |-> result.db, clock |-> current_time, ret |-> result.success]

\* DatabaseManager.is_student_checked_in
is_student_checked_in_never(d, ok, student_id, space_id) == FALSE

is_student_checked_in(d, ok, student_id, space_id) ==
    LET result == execute_query(ok, d, SqlCountCheckedIn(d, student_id, space_id))
    IN  IF result.success /\ result.results # <<>>
        THEN result.results[1].count > 0
        ELSE FALSE

(***************************************************************************)
(* Python text operations the handlers use                                 *)
(***************************************************************************)

\* the characters str.strip() removes (the ASCII and Latin-1 white space)
IsSpace(c) == c \in {9, 10, 11, 12, 13, 28, 29, 30, 31, 32, 133, 160}

RECURSIVE LStrip(_)
LStrip(s) == IF s # <<>> /\ IsSpace(s[1]) THEN LStrip(Tail(s)) ELSE s

RECURSIVE RStrip(_)
RStrip(s) ==
    IF s # <<>> /\ IsSpace(s[Len(s)]) THEN RStrip(SubSeq(s, 1, Len(s) - 1)) ELSE s

\* str.strip()
Strip(s) == RStrip(LStrip(s))

\* str.split(sep) for a one-character separator: the pieces between separators
RECURSIVE SplitFrom(_, _, _, _)
SplitFrom(s, sep, i, acc) ==
    IF i > Len(s) THEN acc
    ELSE IF s[i] = sep THEN SplitFrom(s, sep, i + 1, Append(acc, <<>>))
    ELSE SplitFrom(s, sep, i + 1,
                   [acc EXCEPT ![Len(acc)] = Append(acc[Len(acc)], s[i])])

Split(s, sep) == SplitFrom(s, sep, 1, << <<>> >>)

\* the characters '/', '?' and '-' the URL and the paths are split at
Slash == 47
QuestionMark == 63
Dash == 45

IsDigit(c) == c >= 48 /\ c <= 57

RECURSIVE DigitsValue(_, _)
DigitsValue(s, acc) ==
    IF s = <<>> THEN acc ELSE DigitsValue(Tail(s), acc * 10 + (s[1] - 48))

\* int(text) for text of decimal digits; anything else raises ValueError
\* (the requests of the model use digits and letters only)
ParseInt(s) ==
    IF s # <<>> /\ \A i \in 1..Len(s) : IsDigit(s[i]) THEN DigitsValue(s, 0) ELSE -1

\* str.lower() of one character: the letters of ASCII and Latin-1, and
\* U+0130, whose lower case is two characters; the other characters the
\* model uses have no lower case of their own
LowerChar(c) ==
    IF (c >= 65 /\ c <= 90) \/ (c >= 192 /\ c <= 222 /\ c # 215) THEN <<c + 32>>
    ELSE IF c = 304 THEN <<105, 775>>
    ELSE <<c>>

\* str.lower()
RECURSIVE Lower(_)
Lower(s) == IF s = <<>> THEN <<>> ELSE LowerChar(s[1]) \o Lower(Tail(s))

\* str.upper() of one character of ASCII or Latin-1 (U+00DF becomes "SS")
UpperChar(c) ==
    IF (c >= 97 /\ c <= 122) \/ (c >= 224 /\ c <= 254 /\ c # 247) THEN <<c - 32>>
    ELSE IF c = 223 THEN <<83, 83>>
    ELSE IF c = 181 THEN <<924>>
    ELSE IF c = 255 THEN <<376>>
    ELSE <<c>>

\* str.split() without a separator: the runs of characters between white space
RECURSIVE SplitWordsFrom(_, _, _, _)
SplitWordsFrom(s, i, word, acc) ==
    IF i > Len(s) THEN (IF word = <<>> THEN acc ELSE Append(acc, word))
    ELSE IF IsSpace(s[i])
    THEN SplitWordsFrom(s, i + 1, <<>>, IF word = <<>> THEN acc ELSE Append(acc, word))
    ELSE SplitWordsFrom(s, i + 1, Append(word, s[i]), acc)

SplitWords(s) == SplitWordsFrom(s, 1, <<>>, <<>>)

\* sub in s of Python
Contains(sub, s) ==
    \E i \in 0..(Len(s) - Len(sub)) : SubSeq(s, i + 1, i + Len(sub)) = sub

Str_Unknown == <<85, 110, 107, 110, 111, 119, 110>>   \* "Unknown"

\* a formatting that takes the initial of the second part, not of the last
format_display_name_second(full_name) ==
    LET parts == SplitWords(Strip(full_name))
    IN  IF Len(parts) = 0 THEN Str_Unknown
        ELSE IF Len(parts) = 1 THEN parts[1]
        ELSE parts[1] \o <<32>> \o UpperChar(parts[2][1]) \o <<46>>

\* SimpleEncryption.format_display_name
format_display_name(full_name) ==
    LET parts == SplitWords(Strip(full_name))
    IN  IF Len(parts) = 0 THEN Str_Unknown
        ELSE IF Len(parts) = 1 THEN parts[1]
        ELSE LET first_name == parts[1]
                 last_initial == IF parts[Len(parts)] # <<>>
                                 THEN UpperChar(parts[Len(parts)][1]) ELSE <<>>
             IN  IF last_initial # <<>> THEN first_name \o <<32>> \o last_initial \o <<46>>
                 ELSE first_name

\* a < b for texts, as SQLite's BINARY collation orders them
RECURSIVE TextLess(_, _)
TextLess(a, b) ==
    IF b = <<>> THEN FALSE
    ELSE IF a = <<>> THEN TRUE
    ELSE IF a[1] # b[1] THEN a[1] < b[1]
    ELSE TextLess(Tail(a), Tail(b))

\* SELECT * FROM students ORDER BY student_number
RECURSIVE OrderByStudentNumber(_)
OrderByStudentNumber(rows) ==
    IF rows = {} THEN <<>>
    ELSE LET first == CHOOSE st \in rows :
                        \A other \in rows :
                            \/ TextLess(st.student_number, other.student_number)
                            \/ /\ st.student_number = other.student_number
                               /\ st.student_id <= other.student_id
         IN  <<first>> \o OrderByStudentNumber(rows \ {first})

SqlSelectAllStudents(d) == Result(d, TRUE, OrderByStudentNumber(d.students), 0)

\* a row of students with the display_name the manager adds to it (None when
\* the row has no name to format)
WithDisplayName(student, key) ==
    [ student_id |-> student.student_id,
      student_number |-> student.student_number,
      encrypted_name |-> student.encrypted_name,
      display_name |->
          IF student.encrypted_name # <<>>
          THEN format_display_name(decrypt_name(student.encrypted_name, key))
          ELSE None ]

\* DatabaseManager.get_all_students(decrypt_names=True)
get_all_students(d, ok, key) ==
    LET result == execute_query(ok, d, SqlSelectAllStudents(d))
    IN  IF result.success
        THEN [i \in 1..Len(result.results) |-> WithDisplayName(result.results[i], key)]
        ELSE <<>>

\* a search that looks at the number and the display name only
search_students_short(d, ok, search_term, key) ==
    LET search_lower == Lower(search_term)
        Matches(student) ==
            \/ Contains(search_lower, Lower(student.student_number))
            \/ Contains(search_lower,
                        Lower(IF student.display_name = None THEN <<>>
                              ELSE student.display_name))
    IN  SelectSeq(get_all_students(d, ok, key), Matches)

\* DatabaseManager.search_students
search_students(d, ok, search_term, key) ==
    LET all_students == get_all_students(d, ok, key)
        search_lower == Lower(search_term)
        Matches(student) ==
            LET student_number == Lower(student.student_number)
                display_name == Lower(IF student.display_name = None THEN <<>>
                                      ELSE student.display_name)
                full_name == IF student.encrypted_name # <<>>
                             THEN Lower(decrypt_name(student.encrypted_name, key))
                             ELSE <<>>
            IN  \/ Contains(search_lower, student_number)
                \/ Contains(search_lower, display_name)
                \/ Contains(search_lower, full_name)
    IN  SelectSeq(all_students, Matches)

(***************************************************************************)
(* The handlers of class Default.  A handler maps the database, the clock  *)
(* and its arguments to the database and clock it leaves and the Response  *)
(* it returns.  F is the set of its statements for which the database      *)
(* binding raises (empty when the database answers every statement).       *)
(***************************************************************************)

\* the arguments of a handler that has none, or has not parsed them
NoArgs == [student_number |-> <<>>, space_id |-> 0, space_name |-> <<>>]

\* a Response: the HTTP status, and of the JSON body the fields "status",
\* "action", "previous_location" and the count it reports, with the handler
\* that built it, which of its return statements it is (message) and the
\* student number and space id the handler was called for
Response(handler, code, status, message) ==
    [ handler |-> handler, args |-> NoArgs, code |-> code, status |-> status,
      message |-> message, action |-> "", previous_location |-> None, count |-> 0 ]

NoResponse == Response("", 0, "", "")

Outcome(d, clock, response) == [db |-> d, clock |-> clock, response |-> response]

\* the outcome of a handler called for a student number and a space id
Called(student_number, space_id, out) ==
    [out EXCEPT !.response.args.student_number = student_number,
                !.response.args.space_id = space_id]

\* the outcome of a handler called with a space_name in the body
Named(space_name, out) == [out EXCEPT !.response.args.space_name = space_name]

\* except Exception as e: ... status=500 (the handlers' own try blocks)
Caught(handler, d, clock, exception) ==
    Outcome(d, clock, Response(handler, 500, "error", exception))

\* Default.quick_checkin; its statements: 1 get_student_by_number,
\* 2 is_student_checked_in, 3 get_student_current_checkin,
\* 4 checkout_from_all_spaces, 5 create_checkin
quick_checkin(d, clock, path, F) ==
    LET parts == Split(path, Dash)
    IN  IF Len(parts) # 3
        THEN Outcome(d, clock,
                 Response("quick_checkin", 400, "error", "Invalid format"))
        ELSE
        LET student_number == parts[2]
            space_id == ParseInt(parts[3])
            student == get_student_by_number(d, 1 \notin F, student_number)
        IN  Called(student_number, space_id,
            IF space_id = -1 THEN Caught("quick_checkin", d, clock, "ValueError")
            ELSE IF student = <<>>
            THEN Outcome(d, clock,
                     Response("quick_checkin", 404, "error", "not found"))
            ELSE
            LET student_id == student[1].student_id
                is_checked_in_here == is_student_checked_in(d, 2 \notin F, student_id, space_id)
                current_checkin == get_student_current_checkin(d, 3 \notin F, student_id)
                previous_location ==
                    IF current_checkin # <<>> THEN current_checkin[1].space_name ELSE None
                closed == IF current_checkin # <<>>
                          THEN checkout_from_all_spaces(d, 4 \notin F, clock, student_id)
                          ELSE [db |-> d, clock |-> clock, ret |-> 0]
                created == create_checkin(closed.db, 5 \notin F, closed.clock,
                                          student_id, space_id)
                moved == previous_location # None /\ previous_location # <<>>
            IN  IF is_checked_in_here
                THEN Outcome(d, clock,
                         Response("quick_checkin", 400, "error",
                                  "already checked into this space"))
                ELSE IF ~created.ret
                THEN Outcome(created.db, created.clock,
                         Response("quick_checkin", 500, "error",
                                  "Failed to create check-in"))
                ELSE IF "get_space_by_id" \notin DatabaseManagerMethods
                THEN Caught("quick_checkin", created.db, created.clock,
                            "AttributeError")
                ELSE Outcome(created.db, created.clock,
                         [Response("quick_checkin", 200, "success", "")
                             EXCEPT !.action = IF moved THEN "moved" ELSE "checked_in",
                                    !.previous_location = previous_location]))

\* Default.quick_checkout; its statements: 1 get_student_by_number,
\* 2 is_student_checked_in, 3 checkout_student
quick_checkout(d, clock, path, F) ==
    LET parts == Split(path, Dash)
    IN  IF Len(parts) # 3
        THEN Outcome(d, clock,
                 Response("quick_checkout", 400, "error", "Invalid format"))
        ELSE
        LET student_number == parts[2]
            space_id == ParseInt(parts[3])
            student == get_student_by_number(d, 1 \notin F, student_number)
        IN  Called(student_number, space_id,
            IF space_id = -1 THEN Caught("quick_checkout", d, clock, "ValueError")
            ELSE IF student = <<>>
            THEN Outcome(d, clock,
                     Response("quick_checkout", 404, "error", "not found"))
            ELSE
            LET student_id == student[1].student_id
                is_checked_in == is_student_checked_in(d, 2 \notin F, student_id, space_id)
                done == checkout_student(d, 3 \notin F, clock, student_id, space_id)
            IN  IF ~is_checked_in
                THEN Outcome(d, clock,
                         Response("quick_checkout", 400, "error",
                                  "not currently checked into this space"))
                ELSE IF ~done.ret
                THEN Outcome(done.db, done.clock,
                         Response("quick_checkout", 500, "error",
                                  "Failed to check out"))
                ELSE IF "get_space_by_id" \notin DatabaseManagerMethods
                THEN Caught("quick_checkout", done.db, done.clock, "AttributeError")
                ELSE Outcome(done.db, done.clock,
                         Response("quick_checkout", 200, "success", "")))

\* Default.bulk_checkout_all; its statement: 1 checkout_all_students
bulk_checkout_all(d, clock, F) ==
    LET done == checkout_all_students(d, 1 \notin F, clock)
    IN  Outcome(done.db, done.clock,
            [Response("bulk_checkout_all", 200, "success", "checked out")
                EXCEPT !.count = done.ret])

\* a JSON body {space_name, description} (request.json() of the space endpoints)
Body(space_name, description) == [space_name |-> space_name, description |-> description]

\* Default.create_space_endpoint; its statement: 1 create_space
create_space_endpoint(d, clock, body, F) ==
    LET space_name == Strip(body.space_name)
        description == Strip(body.description)
        made == create_space(d, 1 \notin F, space_name, description)
    IN  Named(space_name,
        IF space_name = <<>>
        THEN Outcome(d, clock,
                 Response("create_space_endpoint", 400, "error",
                          "Space name is required"))
        ELSE IF made.ret
        THEN Outcome(made.db, clock,
                 Response("create_space_endpoint", 200, "success", "created"))
        ELSE Outcome(made.db, clock,
                 Response("create_space_endpoint", 400, "error",
                          "Failed to create space (name may already exist)")))

\* Default.update_space_endpoint; its statement: 1 update_space
update_space_endpoint(d, clock, body, space_id, F) ==
    LET space_name == Strip(body.space_name)
        description == Strip(body.description)
        made == update_space(d, 1 \notin F, space_id, space_name, description)
    IN  Named(space_name, Called(<<>>, space_id,
        IF space_name = <<>>
        THEN Outcome(d, clock,
                 Response("update_space_endpoint", 400, "error",
                          "Space name is required"))
        ELSE IF made.ret
        THEN Outcome(made.db, clock,
                 Response("update_space_endpoint", 200, "success", "updated"))
        ELSE Outcome(made.db, clock,
                 Response("update_space_endpoint", 404, "error",
                          "Space not found or name already exists"))))

\* Default.delete_space_endpoint; its statements: 1 the COUNT, 2 the DELETE
delete_space_endpoint(d, clock, space_id, F) ==
    LET result == delete_space(d, 1 \notin F, 2 \notin F, space_id)
    IN  Called(<<>>, space_id,
        IF result.success
        THEN Outcome(result.db, clock,
                 Response("delete_space_endpoint", 200, "success", "deleted"))
        ELSE Outcome(result.db, clock,
                 Response("delete_space_endpoint", 400, "error", result.error)))

\* the test_students list of add_test_students: (student_number, name)
TestStudents ==
    << << <<49, 50, 51, 52, 53>>,      \* "12345", "Alice Johnson"
          <<65, 108, 105, 99, 101, 32, 74, 111, 104, 110, 115, 111, 110>> >>,
       << <<50, 51, 52, 53, 54>>,      \* "23456", "Bob Smith"
          <<66, 111, 98, 32, 83, 109, 105, 116, 104>> >>,
       << <<51, 52, 53, 54, 55>>,      \* "34567", "Carol Davis"
          <<67, 97, 114, 111, 108, 32, 68, 97, 118, 105, 115>> >>,
       << <<52, 53, 54, 55, 56>>,      \* "45678", "David Wilson"
          <<68, 97, 118, 105, 100, 32, 87, 105, 108, 115, 111, 110>> >>,
       << <<53, 54, 55, 56, 57>>,      \* "56789", "Emma Brown"
          <<69, 109, 109, 97, 32, 66, 114, 111, 119, 110>> >>,
       << <<54, 55, 56, 57, 48>>,      \* "67890", "Frank Miller"
          <<70, 114, 97, 110, 107, 32, 77, 105, 108, 108, 101, 114>> >>,
       << <<55, 56, 57, 48, 49>>,      \* "78901", "Grace Lee"
          <<71, 114, 97, 99, 101, 32, 76, 101, 101>> >>,
       << <<56, 57, 48, 49, 50>>,      \* "89012", "Henry Taylor"
          <<72, 101, 110, 114, 121, 32, 84, 97, 121, 108, 111, 114>> >> >>

\* the loop of add_test_students from its i-th student on; the statements of
\* student i: 2i-1 get_student_by_number, 2i create_student
RECURSIVE AddTestStudentsFrom(_, _, _, _, _)
AddTestStudentsFrom(d, i, added, key, F) ==
    IF i > Len(TestStudents) THEN [db |-> d, added |-> added]
    ELSE LET student_number == TestStudents[i][1]
             name == TestStudents[i][2]
             existing == get_student_by_number(d, (2 * i - 1) \notin F, student_number)
             made == create_student(d, (2 * i) \notin F, student_number, name, key)
         IN  IF existing # <<>> THEN AddTestStudentsFrom(d, i + 1, added, key, F)
             ELSE AddTestStudentsFrom(made.db, i + 1,
                                      IF made.ret THEN added + 1 ELSE added, key, F)

\* Default.add_test_students
add_test_students(d, clock, key, F) ==
    LET done == AddTestStudentsFrom(d, 1, 0, key, F)
    IN  Outcome(done.db, clock,
            [Response("add_test_students", 200, "success", "added")
                EXCEPT !.count = done.added])

\* Default.test_encryption: its try block catches the failing call
test_encryption(d, clock) ==
    IF "create_hmac" \notin SimpleEncryptionMethods
    THEN Caught("test_encryption", d, clock, "AttributeError")
    ELSE Outcome(d, clock, Response("test_encryption", 200, "success", ""))

\* the handlers that read the database and change nothing: debug_database,
\* init_database (CREATE TABLE IF NOT EXISTS on the created tables),
\* list_students, list_spaces, current_checkins, handle_search and the two pages
ReadOnly(handler, d, clock) == Outcome(d, clock, Response(handler, 200, "", ""))

\* UPDATE students SET encrypted_name = ? WHERE student_id = ?
SqlUpdateStudentName(d, encrypted_name, student_id) ==
    LET hit == {st \in d.students : st.student_id = student_id}
    IN  Constrained(d,
            [d EXCEPT !.students =
                {IF st \in hit THEN [st EXCEPT !.encrypted_name = encrypted_name] ELSE st
                    : st \in d.students}],
            Cardinality(hit))

\* the loop of migrate_to_encryption over the rows of its SELECT (in rowid
\* order) from student_id id on; the UPDATE of row id is statement 1 + id
RECURSIVE MigrateFrom(_, _, _, _, _, _)
MigrateFrom(d, rows, id, migrated, key, F) ==
    IF id > d.seq.students THEN [db |-> d, migrated |-> migrated]
    ELSE LET row == {st \in rows : st.student_id = id}
             old == (CHOOSE st \in row : TRUE).encrypted_name
             update_result == execute_query((1 + id) \notin F, d,
                                  SqlUpdateStudentName(d, encrypt_name(old, key), id))
         IN  IF row = {} \/ is_encrypted(old)
             THEN MigrateFrom(d, rows, id + 1, migrated, key, F)
             ELSE MigrateFrom(update_result.db, rows, id + 1,
                              IF update_result.success THEN migrated + 1 ELSE migrated,
                              key, F)

\* Default.migrate_to_encryption; statement 1 is its SELECT * FROM students
migrate_to_encryption(d, clock, key, F) ==
    LET done == MigrateFrom(d, d.students, 1, 0, key, F)
    IN  IF 1 \in F
        THEN Outcome(d, clock,
                 Response("migrate_to_encryption", 500, "error",
                          "Failed to fetch students"))
        ELSE Outcome(done.db, clock,
                 [Response("migrate_to_encryption", 200, "success", "migrated")
                     EXCEPT !.count = done.migrated])

(***************************************************************************)
(* Default.fetch: the path of the URL and the chain of route tests         *)
(***************************************************************************)

Str_debug_db == <<100, 101, 98, 117, 103, 45, 100, 98>>   \* "debug-db"
Str_init_db == <<105, 110, 105, 116, 45, 100, 98>>   \* "init-db"
Str_add_test_students == <<97, 100, 100, 45, 116, 101, 115, 116, 45, 115, 116, 117, 100, 101, 110, 116, 115>>   \* "add-test-students"
Str_migrate_encryption == <<109, 105, 103, 114, 97, 116, 101, 45, 101, 110, 99, 114, 121, 112, 116, 105, 111, 110>>   \* "migrate-encryption"
Str_test_encryption == <<116, 101, 115, 116, 45, 101, 110, 99, 114, 121, 112, 116, 105, 111, 110>>   \* "test-encryption"
Str_checkin == <<99, 104, 101, 99, 107, 105, 110>>   \* "checkin"
Str_checkout == <<99, 104, 101, 99, 107, 111, 117, 116>>   \* "checkout"
Str_web == <<119, 101, 98>>   \* "web"
Str_admin == <<97, 100, 109, 105, 110>>   \* "admin"
Str_search == <<115, 101, 97, 114, 99, 104>>   \* "search"
Str_bulk_checkout == <<98, 117, 108, 107, 45, 99, 104, 101, 99, 107, 111, 117, 116>>   \* "bulk-checkout"
Str_checkin_ == <<99, 104, 101, 99, 107, 105, 110, 45>>   \* "checkin-"
Str_checkout_ == <<99, 104, 101, 99, 107, 111, 117, 116, 45>>   \* "checkout-"
Str_students == <<115, 116, 117, 100, 101, 110, 116, 115>>   \* "students"
Str_spaces == <<115, 112, 97, 99, 101, 115>>   \* "spaces"
Str_spaces_slash == <<115, 112, 97, 99, 101, 115, 47>>   \* "spaces/"
Str_current_checkins == <<99, 117, 114, 114, 101, 110, 116, 45, 99, 104, 101, 99, 107, 105, 110, 115>>   \* "current-checkins"


\* path_parts = url.split('/'); path = path_parts[-1] if len(path_parts) > 1
\* else ''; then the query string is cut off
PathOf(url) ==
    LET path_parts == Split(url, Slash)
        path == IF Len(path_parts) > 1 THEN path_parts[Len(path_parts)] ELSE <<>>
    IN  IF \E i \in 1..Len(path) : path[i] = QuestionMark
        THEN Split(path, QuestionMark)[1]
        ELSE path

\* the if / elif chain of fetch: the handler the first true test selects
Dispatch(method, path) ==
    IF      path = Str_debug_db /\ method = "GET" THEN "debug_database"
    ELSE IF path = Str_init_db /\ method = "GET" THEN "init_database"
    ELSE IF path = Str_add_test_students /\ method = "GET" THEN "add_test_students"
    ELSE IF path = Str_migrate_encryption /\ method = "GET" THEN "migrate_to_encryption"
    ELSE IF path = Str_test_encryption /\ method = "GET" THEN "test_encryption"
    ELSE IF path = Str_checkin /\ method = "POST" THEN "handle_checkin"
    ELSE IF path = Str_checkout /\ method = "POST" THEN "handle_checkout"
    ELSE IF path = Str_web /\ method = "GET" THEN "serve_web_interface"
    ELSE IF path = Str_admin /\ method = "GET" THEN "serve_admin_dashboard"
    ELSE IF path = Str_search /\ method = "GET" THEN "handle_search"
    ELSE IF path = Str_bulk_checkout /\ method = "POST" THEN "bulk_checkout_all"
    ELSE IF StartsWith(path, Str_checkin_) /\ method = "GET" THEN "quick_checkin"
    ELSE IF StartsWith(path, Str_checkout_) /\ method = "GET" THEN "quick_checkout"
    ELSE IF path = Str_students /\ method = "GET" THEN "list_students"
    ELSE IF path = Str_spaces /\ method = "GET" THEN "list_spaces"
    ELSE IF path = Str_spaces /\ method = "POST" THEN "create_space_endpoint"
    ELSE IF StartsWith(path, Str_spaces_slash) /\ method = "PUT"
         THEN "update_space_endpoint"
    ELSE IF StartsWith(path, Str_spaces_slash) /\ method = "DELETE"
         THEN "delete_space_endpoint"
    ELSE IF path = Str_current_checkins /\ method = "GET" THEN "current_checkins"
    ELSE "default"

\* fetch without its except clause: the exception leaves fetch and the
\* runtime is given no Response
except_Exception_absent(d, clock, exception) ==
    Outcome(d, clock, Response("fetch", 0, "", exception))

\* the except clause of fetch: status 500, a body with "error": str(e) and
\* no "status"
except_Exception(d, clock, exception) ==
    Outcome(d, clock, Response("fetch", 500, "", exception))

\* Default.fetch: dispatch, the call of the handler, and the except clause
\* around both
fetch(d, clock, method, url, body, key, F) ==
    LET path == PathOf(url)
        handler == Dispatch(method, path)
        parts == Split(path, Slash)
        space_id == ParseInt(parts[Len(parts)])
        uncaught(exception) == except_Exception(d, clock, exception)
    IN  CASE handler = "default" ->
                Outcome(d, clock, Response("default", 200, "", "endpoints"))
          [] handler \notin DefaultMethods -> uncaught("AttributeError")
          [] handler = "add_test_students" -> add_test_students(d, clock, key, F)
          [] handler = "migrate_to_encryption" -> migrate_to_encryption(d, clock, key, F)
          [] handler = "test_encryption" -> test_encryption(d, clock)
          [] handler = "bulk_checkout_all" -> bulk_checkout_all(d, clock, F)
          [] handler = "quick_checkin" -> quick_checkin(d, clock, path, F)
          [] handler = "quick_checkout" -> quick_checkout(d, clock, path, F)
          [] handler = "create_space_endpoint" -> create_space_endpoint(d, clock, body, F)
          [] handler = "update_space_endpoint" ->
                IF space_id = -1 THEN uncaught("ValueError")
                ELSE update_space_endpoint(d, clock, body, space_id, F)
          [] handler = "delete_space_endpoint" ->
                IF space_id = -1 THEN uncaught("ValueError")
                ELSE delete_space_endpoint(d, clock, space_id, F)
          [] OTHER -> ReadOnly(handler, d, clock)

(***************************************************************************)
(* Bounds and the requests the model sends                                 *)
(***************************************************************************)

\* readings of the clock (each check-in or check-out statement takes one)
MaxClock == 3
\* rows the spaces table is ever given
MaxSpaces == 2
\* rows the students table is ever given
MaxStudents == 9
\* statements of one request for which the database binding raises
MaxFaults == 1

Origin == <<104, 116, 116, 112, 115, 58, 47, 47, 104>>   \* "https://h"
Alice == TestStudents[1]
Bob == TestStudents[2]
Zoe == << <<57, 57, 57, 57, 57>>,                        \* "99999", "Zoe Quinn"
          <<90, 111, 101, 32, 81, 117, 105, 110, 110>> >>
Lab == <<76, 97, 98>>                                    \* "Lab"
Gym == <<71, 121, 109>>                                  \* "Gym"

StudentNumbers == {Alice[1], Zoe[1]}
SpaceIdTexts == {<<49>>, <<50>>}                         \* "1", "2"
NoBody == Body(<<>>, <<>>)
Bodies == {Body(Lab, <<>>), Body(Gym, <<>>), NoBody}
\* bodies whose space_name needs strip()
PaddedBodies == {Body(<<32>> \o Gym \o <<32>>, <<>>), Body(<<32>>, <<>>)}

Url(path) == Origin \o <<Slash>> \o path
Request(method, path, body) == [method |-> method, url |-> Url(path), body |-> body]

\* the requests that reach a handler which writes to the database
Requests ==
    {Request("GET", Str_add_test_students, NoBody)}
    \cup {Request("GET", Str_checkin_ \o n \o <<Dash>> \o i, NoBody)
             : n \in StudentNumbers, i \in SpaceIdTexts}
    \cup {Request("GET", Str_checkout_ \o n \o <<Dash>> \o i, NoBody)
             : n \in StudentNumbers, i \in SpaceIdTexts}
    \cup {Request("POST", Str_bulk_checkout, NoBody)}
    \cup {Request("POST", Str_spaces, b) : b \in Bodies}

\* the requests sent to a database binding that may raise
FaultRequests ==
    {Request("GET", p \o Alice[1] \o <<Dash>> \o i, NoBody)
        : p \in {Str_checkin_, Str_checkout_}, i \in SpaceIdTexts}
    \cup {Request("POST", Str_bulk_checkout, NoBody)}
    \cup {Request("POST", Str_spaces, b) : b \in Bodies}

\* requests for the space routes and for the other branches of the dispatcher
RouteRequests ==
    {Request("POST", Str_spaces, b) : b \in Bodies \cup PaddedBodies}
    \cup {Request(m, Str_spaces_slash \o i, Body(Gym, <<>>))
             : m \in {"GET", "PUT", "DELETE"}, i \in SpaceIdTexts}
    \cup {Request(m, Str_spaces, Body(Lab, <<>>)) : m \in {"GET", "PUT", "DELETE"}}
    \cup {Request("GET", Str_checkin_ \o Alice[1], NoBody),
          Request("GET", Str_checkin_ \o Alice[1] \o <<Dash, 120>>, NoBody),
          Request("POST", Str_checkin, NoBody),
          Request("GET", Str_students \o <<QuestionMark, 120>>, NoBody),
          Request("GET", Str_test_encryption, NoBody),
          Request("GET", <<>>, NoBody)}

\* the PUT and DELETE requests to /spaces/{id}
SpaceIdRequests ==
    {Request(m, Str_spaces_slash \o i, Body(Gym, <<>>))
        : m \in {"PUT", "DELETE"}, i \in SpaceIdTexts}

\* the sets of at most k of the statements 1..n
RECURSIVE FaultSets(_, _)
FaultSets(n, k) ==
    IF k = 0 THEN {{}}
    ELSE FaultSets(n, k - 1) \cup {S \cup {i} : S \in FaultSets(n, k - 1), i \in 1..n}

(***************************************************************************)
(* The state machine                                                       *)
(***************************************************************************)

VARIABLES
    db,         \* the D1 database behind env.DB
    clock,      \* the last reading of datetime.utcnow()
    response,   \* the Response of the last request
    faulty,     \* whether the database binding may raise for a statement
    reqs,       \* the quick_checkin requests in flight: where each one is
                \* in the handler, and its local variables
    enc,        \* a name on its way through encrypt_name and decrypt_name
    call        \* the last call of a method that only returns a value: the
                \* method, its argument and what it returned

vars == <<db, clock, response, faulty, reqs, enc, call>>

\* overlapping requests
NumRequests == 2
Procs == 1..NumRequests

\* a request that has not arrived
Idle ==
    [ pc |-> "idle", student_number |-> <<>>, space_id |-> 0, student |-> <<>>,
      current_checkin |-> <<>>, previous_location |-> None, response |-> NoResponse ]

\* no name is being encrypted
NoName ==
    [ stage |-> "none", key |-> DefaultKey, name |-> <<>>, encrypted |-> <<>>,
      decrypted |-> <<>> ]

\* no such call has been made
NoCall == [fn |-> "none", args |-> <<>>, ret |-> <<>>]

\* the statements of one request the binding raises for
Faults(n) == IF faulty THEN FaultSets(n, MaxFaults) ELSE {{}}

\* the request ends with outcome out (inside the bounds of the model)
Ends(out) ==
    /\ out.clock <= MaxClock
    /\ out.db.seq.spaces <= MaxSpaces
    /\ out.db.seq.students <= MaxStudents
    /\ db' = out.db
    /\ clock' = out.clock
    /\ response' = out.response
    /\ UNCHANGED <<faulty, reqs, enc, call>>

\* the state after init_database on an empty database
Init ==
    /\ db = EmptyDb
    /\ clock = 0
    /\ response = NoResponse
    /\ faulty = FALSE
    /\ reqs = [p \in Procs |-> Idle]
    /\ enc = NoName
    /\ call = NoCall

\* the number of statements a handler may issue (the fault sets range over them)
Statements(handler) ==
    CASE handler = "add_test_students" -> 2 * Len(TestStudents)
      [] handler = "migrate_to_encryption" -> 1 + MaxStudents
      [] handler = "quick_checkin" -> 5
      [] handler = "quick_checkout" -> 3
      [] handler = "delete_space_endpoint" -> 2
      [] handler \in {"bulk_checkout_all", "create_space_endpoint",
                      "update_space_endpoint"} -> 1
      [] OTHER -> 0

\* one HTTP request out of R, handled from the first to the last statement
FetchOf(R) ==
    \E r \in R :
        \E F \in Faults(Statements(Dispatch(r.method, PathOf(r.url)))) :
            Ends(fetch(db, clock, r.method, r.url, r.body, DefaultKey, F))

Fetch == FetchOf(Requests)

\* update_space_endpoint called with a space_id and a JSON body
UpdateSpaceEndpoint ==
    \E space_id \in 1..MaxSpaces : \E body \in Bodies : \E F \in Faults(1) :
        Ends(update_space_endpoint(db, clock, body, space_id, F))

\* delete_space_endpoint called with a space_id
DeleteSpaceEndpoint ==
    \E space_id \in 1..MaxSpaces : \E F \in Faults(2) :
        Ends(delete_space_endpoint(db, clock, space_id, F))

\* DatabaseManager.create_student called with the number and name of one of S
CreateStudentOf(S) ==
    \E st \in S : \E F \in Faults(1) :
        LET made == create_student(db, 1 \notin F, st[1], st[2], DefaultKey)
        IN  Ends(Called(st[1], 0,
                    Outcome(made.db, clock,
                        Response("create_student", 0,
                                 IF made.ret THEN "True" ELSE "False", ""))))

CreateStudent == CreateStudentOf({Zoe})

Next == Fetch \/ UpdateSpaceEndpoint \/ DeleteSpaceEndpoint \/ CreateStudent

Spec == Init /\ [][Next]_vars

\* Requests against a database binding that may raise for a statement, from
\* the state add_test_students leaves on the initial database
InitFaults ==
    /\ db = add_test_students(EmptyDb, 0, DefaultKey, {}).db
    /\ clock = 0
    /\ response = NoResponse
    /\ faulty = TRUE
    /\ reqs = [p \in Procs |-> Idle]
    /\ enc = NoName
    /\ call = NoCall

FetchFaulty == FetchOf(FaultRequests)

NextFaults == FetchFaulty \/ UpdateSpaceEndpoint \/ DeleteSpaceEndpoint

SpecFaults == InitFaults /\ [][NextFaults]_vars

\* create_student and add_test_students in any order, against a database
\* binding that may raise for a statement
InitStudents ==
    /\ db = EmptyDb
    /\ clock = 0
    /\ response = NoResponse
    /\ faulty = TRUE
    /\ reqs = [p \in Procs |-> Idle]
    /\ enc = NoName
    /\ call = NoCall

CreateAnyStudent == CreateStudentOf({Alice, Bob, Zoe})

AddTestStudents == FetchOf({Request("GET", Str_add_test_students, NoBody)})

NextStudents == CreateAnyStudent \/ AddTestStudents

SpecStudents == InitStudents /\ [][NextStudents]_vars

\* Requests for every kind of route, among them the routes of single spaces
FetchRoute == FetchOf(RouteRequests)

NextRoutes == FetchRoute \/ UpdateSpaceEndpoint \/ DeleteSpaceEndpoint

SpecRoutes == Init /\ [][NextRoutes]_vars

(***************************************************************************)
(* Overlapping quick_checkin requests.  Every await of the handler hands   *)
(* control back, so the statements of two requests interleave; a statement *)
(* is atomic.  Each step below is the handler's code up to its next await. *)
(***************************************************************************)

\* the database with the test students and the spaces "Lab" (1) and "Gym" (2)
PopulatedDb ==
    LET students == add_test_students(EmptyDb, 0, DefaultKey, {}).db
        lab == create_space_endpoint(students, 0, Body(Lab, <<>>), {}).db
    IN  create_space_endpoint(lab, 0, Body(Gym, <<>>), {}).db

\* the paths of the overlapping requests
QuickCheckinPaths ==
    {Str_checkin_ \o n \o <<Dash>> \o i : n \in {Alice[1], Bob[1]}, i \in SpaceIdTexts}

InitConcurrent ==
    /\ db = PopulatedDb
    /\ clock = 0
    /\ response = NoResponse
    /\ faulty = FALSE
    /\ reqs = [p \in Procs |-> Idle]
    /\ enc = NoName
    /\ call = NoCall

\* request p moves to pc with its locals changed; the database is left alone
Goes(p, next) ==
    /\ reqs' = [reqs EXCEPT ![p] = next]
    /\ UNCHANGED <<db, clock, response, faulty, enc, call>>

\* request p returns a Response
Returns(p, code, status, message) ==
    [reqs[p] EXCEPT !.pc = "done",
                    !.response = Response("quick_checkin", code, status, message)]

\* the request arrives: the path is split and parsed
Arrive(p, path) ==
    LET parts == Split(path, Dash)
    IN  /\ reqs[p].pc = "idle"
        /\ IF Len(parts) # 3
           THEN Goes(p, Returns(p, 400, "error", "Invalid format"))
           ELSE IF ParseInt(parts[3]) = -1
           THEN Goes(p, Returns(p, 500, "error", "ValueError"))
           ELSE Goes(p, [reqs[p] EXCEPT !.pc = "get_student_by_number",
                                        !.student_number = parts[2],
                                        !.space_id = ParseInt(parts[3])])

\* student = await db.get_student_by_number(student_number, decrypt_name=True)
GetStudentByNumber(p) ==
    LET student == get_student_by_number(db, TRUE, reqs[p].student_number)
    IN  /\ reqs[p].pc = "get_student_by_number"
        /\ IF student = <<>>
           THEN Goes(p, Returns(p, 404, "error", "not found"))
           ELSE Goes(p, [reqs[p] EXCEPT !.pc = "is_student_checked_in",
                                        !.student = student])

\* is_checked_in_here = await db.is_student_checked_in(student_id, space_id)
IsStudentCheckedIn(p) ==
    /\ reqs[p].pc = "is_student_checked_in"
    /\ IF is_student_checked_in(db, TRUE, reqs[p].student[1].student_id, reqs[p].space_id)
       THEN Goes(p, Returns(p, 400, "error", "already checked into this space"))
       ELSE Goes(p, [reqs[p] EXCEPT !.pc = "get_student_current_checkin"])

\* current_checkin = await db.get_student_current_checkin(student_id)
GetStudentCurrentCheckin(p) ==
    LET current_checkin ==
            get_student_current_checkin(db, TRUE, reqs[p].student[1].student_id)
    IN  /\ reqs[p].pc = "get_student_current_checkin"
        /\ IF current_checkin # <<>>
           THEN Goes(p, [reqs[p] EXCEPT
                            !.pc = "checkout_from_all_spaces",
                            !.current_checkin = current_checkin,
                            !.previous_location = current_checkin[1].space_name])
           ELSE Goes(p, [reqs[p] EXCEPT !.pc = "create_checkin"])

\* await db.checkout_from_all_spaces(student_id)
CheckoutFromAllSpaces(p) ==
    LET closed == checkout_from_all_spaces(db, TRUE, clock, reqs[p].student[1].student_id)
    IN  /\ reqs[p].pc = "checkout_from_all_spaces"
        /\ closed.clock <= MaxClock
        /\ db' = closed.db
        /\ clock' = closed.clock
        /\ reqs' = [reqs EXCEPT ![p].pc = "create_checkin"]
        /\ UNCHANGED <<response, faulty, enc, call>>

\* success = await db.create_checkin(student_id, space_id)
CreateCheckin(p) ==
    LET created == create_checkin(db, TRUE, clock, reqs[p].student[1].student_id,
                                  reqs[p].space_id)
    IN  /\ reqs[p].pc = "create_checkin"
        /\ created.clock <= MaxClock
        /\ db' = created.db
        /\ clock' = created.clock
        /\ reqs' = [reqs EXCEPT ![p] =
                        IF created.ret THEN [reqs[p] EXCEPT !.pc = "get_space_by_id"]
                        ELSE Returns(p, 500, "error", "Failed to create check-in")]
        /\ UNCHANGED <<response, faulty, enc, call>>

\* space = await db.get_space_by_id(space_id), and the return that follows
GetSpaceById(p) ==
    LET moved == reqs[p].previous_location # None /\ reqs[p].previous_location # <<>>
    IN  /\ reqs[p].pc = "get_space_by_id"
        /\ IF "get_space_by_id" \notin DatabaseManagerMethods
           THEN Goes(p, Returns(p, 500, "error", "AttributeError"))
           ELSE Goes(p, [reqs[p] EXCEPT
                    !.pc = "done",
                    !.response =
                        [Response("quick_checkin", 200, "success", "")
                            EXCEPT !.action = IF moved THEN "moved" ELSE "checked_in",
                                   !.previous_location = reqs[p].previous_location]])

NextConcurrent ==
    \E p \in Procs :
        \/ \E path \in QuickCheckinPaths : Arrive(p, path)
        \/ GetStudentByNumber(p)
        \/ IsStudentCheckedIn(p)
        \/ GetStudentCurrentCheckin(p)
        \/ CheckoutFromAllSpaces(p)
        \/ CreateCheckin(p)
        \/ GetSpaceById(p)

SpecConcurrent == InitConcurrent /\ [][NextConcurrent]_vars

(***************************************************************************)
(* SimpleEncryption on its own: a name is encrypted under a key and the    *)
(* result is decrypted under the same key.                                 *)
(***************************************************************************)

\* the test_names of test_encryption
TestNames ==
    { <<65, 108, 105, 99, 101, 32, 74, 111, 104, 110, 115, 111, 110>>,
      <<66, 111, 98, 32, 83, 109, 105, 116, 104>>,
      <<77, 97, 114, 105, 97, 32, 71, 97, 114, 99, 237, 97>>,
      <<26446, 26126>>,
      <<74, 111, 104, 110, 32, 79, 39, 67, 111, 110, 110, 111, 114>> }

\* characters of each UTF-8 length (A, ':', e-acute, U+674E, U+1F600) and a
\* lone surrogate, which str.encode refuses
NameChars == {65, 58, 233, 26446, 128512, 55296}

\* the longest name made of NameChars
MaxNameLen == 2

RECURSIVE TextsUpTo(_, _)
TextsUpTo(chars, n) ==
    IF n = 0 THEN {<<>>}
    ELSE TextsUpTo(chars, n - 1)
         \cup {t \o <<c>> : t \in TextsUpTo(chars, n - 1), c \in chars}

\* the names given to encrypt_name: short texts, the same texts behind a
\* literal "ENC:" (a plain name that looks encrypted) and the test names
Names ==
    TextsUpTo(NameChars, MaxNameLen)
    \cup {ENC_PREFIX \o t : t \in TextsUpTo(NameChars, MaxNameLen)}
    \cup TestNames

InitEncryption ==
    /\ db = EmptyDb
    /\ clock = 0
    /\ response = NoResponse
    /\ faulty = FALSE
    /\ reqs = [p \in Procs |-> Idle]
    /\ enc \in [ stage : {"plain"}, key : EncryptionKeys, name : Names,
                  encrypted : {<<>>}, decrypted : {<<>>} ]
    /\ call = NoCall

\* encrypted = encryption.encrypt_name(name)
EncryptName ==
    /\ enc.stage = "plain"
    /\ enc' = [enc EXCEPT !.stage = "encrypted",
                          !.encrypted = encrypt_name(enc.name, enc.key)]
    /\ UNCHANGED <<db, clock, response, faulty, reqs, call>>

\* decrypted = encryption.decrypt_name(encrypted)
DecryptName ==
    /\ enc.stage = "encrypted"
    /\ enc' = [enc EXCEPT !.stage = "decrypted",
                          !.decrypted = decrypt_name(enc.encrypted, enc.key)]
    /\ UNCHANGED <<db, clock, response, faulty, reqs, call>>

NextEncryption == EncryptName \/ DecryptName

SpecEncryption == InitEncryption /\ [][NextEncryption]_vars

(***************************************************************************)
(* search_students over tables of a few students                           *)
(***************************************************************************)

\* students to search among: (student_number, name)
SearchedStudents ==
    { Alice,
      << <<66, 50>>, <<201, 97, 32, 99, 32, 67, 100>> >>,    \* "B2", "Éa c Cd"
      << <<51>>, <<32, 32>> >> }                             \* "3", "  "

\* search terms: "", "b2", "ali", "J.", "cd", "C.", "éA", "unk", "3", "zz"
SearchTerms ==
    { <<>>, <<98, 50>>, <<97, 108, 105>>, <<74, 46>>, <<99, 100>>, <<67, 46>>,
      <<233, 65>>, <<117, 110, 107>>, <<51>>, <<122, 122>> }

CreateSearchedStudent == CreateStudentOf(SearchedStudents)

\* matching_students = await db.search_students(search_term)
SearchStudents ==
    \E search_term \in SearchTerms :
        /\ call' = [ fn |-> "search_students", args |-> search_term,
                     ret |-> search_students(db, TRUE, search_term, DefaultKey) ]
        /\ UNCHANGED <<db, clock, response, faulty, reqs, enc>>

NextSearch == CreateSearchedStudent \/ SearchStudents

SpecSearch == Init /\ [][NextSearch]_vars

(***************************************************************************)
(* format_display_name on its own                                          *)
(***************************************************************************)

\* the characters of the names to format: a, b, space, tab and U+00DF, whose
\* upper case is two characters
DisplayChars == {97, 98, 32, 9, 223}

\* the longest name made of DisplayChars
MaxDisplayLen == 5

\* the names given to format_display_name: short texts, the names of the
\* test students and the test names of test_encryption
FullNames ==
    TextsUpTo(DisplayChars, MaxDisplayLen)
    \cup {TestStudents[i][2] : i \in 1..Len(TestStudents)}
    \cup TestNames

InitDisplay ==
    /\ db = EmptyDb
    /\ clock = 0
    /\ response = NoResponse
    /\ faulty = FALSE
    /\ reqs = [p \in Procs |-> Idle]
    /\ enc = NoName
    /\ call \in [fn : {"name"}, args : FullNames, ret : {<<>>}]

\* student["display_name"] = self.encryption.format_display_name(full_name)
FormatDisplayName ==
    /\ call.fn = "name"
    /\ call' = [call EXCEPT !.fn = "format_display_name",
                            !.ret = format_display_name(call.args)]
    /\ UNCHANGED <<db, clock, response, faulty, reqs, enc>>

NextDisplay == FormatDisplayName

SpecDisplay == InitDisplay /\ [][NextDisplay]_vars

(***************************************************************************)
(* migrate_to_encryption on tables that hold names from before encryption  *)
(***************************************************************************)

\* rows of a table to migrate
MaxLegacy == 3

\* the names such a table holds: plain names (one of them empty, one outside
\* ASCII), a name create_student stored, and a plain "ENC:x"
LegacyNames ==
    { <<>>, Bob[2], <<26446, 26126>>, encrypt_name(Alice[2], DefaultKey),
      ENC_PREFIX \o <<120>> }

\* the students table with the given names, under the numbers of the test
\* students
LegacyDb(names) ==
    [EmptyDb EXCEPT
        !.students = {[student_id |-> i, student_number |-> TestStudents[i][1],
                       encrypted_name |-> names[i]] : i \in 1..Len(names)},
        !.seq.students = Len(names)]

InitMigrate ==
    /\ \E n \in 1..MaxLegacy : \E names \in [1..n -> LegacyNames] :
          db = LegacyDb(names)
    /\ clock = 0
    /\ response = NoResponse
    /\ faulty = FALSE
    /\ reqs = [p \in Procs |-> Idle]
    /\ enc = NoName
    /\ call = NoCall

\* GET /migrate-encryption
MigrateToEncryption == FetchOf({Request("GET", Str_migrate_encryption, NoBody)})

NextMigrate == MigrateToEncryption \/ CreateStudent

SpecMigrate == InitMigrate /\ [][NextMigrate]_vars

(***************************************************************************)
(* What create_student stores, for names of every kind                     *)
(***************************************************************************)

\* students to create: (student_number, name), with an ASCII name, a CJK
\* name and a name that holds a lone surrogate
NamedStudents ==
    { Zoe,
      << <<57, 57, 57, 57, 56>>, <<26446, 26126>> >>,
      << <<57, 57, 57, 57, 55>>, <<55296>> >> }

CreateNamedStudent == CreateStudentOf(NamedStudents)

NextStored == CreateNamedStudent \/ AddTestStudents \/ EncryptName

SpecStored == InitEncryption /\ [][NextStored]_vars

(***************************************************************************)
(* Properties                                                              *)
(***************************************************************************)

OpenRows(d, student_id) ==
    {ci \in d.check_ins : ci.student_id = student_id /\ ci.time_out = NULL}

StudentIds(d) == {ci.student_id : ci \in d.check_ins}

Created(student_number) ==
    {p \in Procs : /\ reqs[p].student_number = student_number
                   /\ \/ reqs[p].pc = "get_space_by_id"
                      \/ /\ reqs[p].pc = "done"
                         /\ reqs[p].response.message \in {"AttributeError", ""}}

\* C2: under overlapping quick_checkin requests the statements interleave and
\* every request that found no open row of the student adds an open row of
\* its own: as long as no request for the student has seen an open row (and
\* so none closes any), the student has as many open rows as there are
\* requests that have inserted - two or more when two requests overlap.
C2_OverlapAddsOpenRows ==
    \A st \in db.students :
        (\A p \in Procs : reqs[p].student_number = st.student_number
                            => reqs[p].current_checkin = <<>>)
        => Cardinality(OpenRows(db, st.student_id))
             = Cardinality(Created(st.student_number))

\* two overlapping requests for one student have both returned and the
\* student has two open rows
C2_Witness ==
    \E p, q \in Procs :
        /\ p # q
        /\ reqs[p].pc = "done" /\ reqs[q].pc = "done"
        /\ reqs[p].student_number = reqs[q].student_number
        /\ \E st \in db.students :
              /\ st.student_number = reqs[p].student_number
              /\ Cardinality(OpenRows(db, st.student_id)) >= 2

\* the rows of check_ins with a given log_id
RowsOf(d, log_id) == {ci \in d.check_ins : ci.log_id = log_id}

C4_DecryptInvertsEncrypt ==
    enc.stage = "decrypted" => enc.decrypted = enc.name

\* a name with a character outside ASCII was turned into "ENC:" + Base64 text
\* that differs from it, and has been decrypted
C4_Witness ==
    /\ enc.stage = "decrypted"
    /\ \E i \in 1..Len(enc.name) : enc.name[i] > 127
    /\ StartsWith(enc.encrypted, ENC_PREFIX)
    /\ enc.encrypted # enc.name
    /\ \A i \in 1..Len(enc.encrypted) : enc.encrypted[i] < 128

ActiveIn(d, space_id) ==
    {ci \in d.check_ins : ci.space_id = space_id /\ ci.time_out = NULL}

\* C6: delete_space deletes a space only if it has no active check-ins: in
\* every call, also one in which the database binding raises for one of its
\* statements, if a check_ins row with time_out NULL refers to the space then
\* no spaces row is deleted and the result is success False.
C6_NoDeleteWithActiveCheckins ==
    [][ ( /\ response'.handler = "delete_space_endpoint"
          /\ ActiveIn(db, response'.args.space_id) # {} )
        => ( /\ db'.spaces = db.spaces
             /\ response'.status = "error"
             /\ response'.code = 400 )
      ]_vars

\* delete_space ran with its COUNT statement failing on a space that has an
\* active check-in: the DELETE was issued and refused, the space is there
C6_Witness ==
    /\ response.handler = "delete_space_endpoint"
    /\ response.message = "not found"
    /\ ActiveIn(db, response.args.space_id) # {}
    /\ \E sp \in db.spaces : sp.space_id = response.args.space_id

\* the integer at the end of a URL
IdAtEnd(url) == ParseInt(Split(url, Slash)[Len(Split(url, Slash))])

\* C7: a PUT request to /spaces/{id} is dispatched to update_space_endpoint
\* and a DELETE request to /spaces/{id} to delete_space_endpoint, each with
\* space_id the integer at the end of the URL: every step in which fetch
\* handles such a request ends with the Response of that handler for that id.
C7_SpaceRoutesReachTheirHandlers ==
    [][ \A r \in SpaceIdRequests :
          LET out == fetch(db, clock, r.method, r.url, r.body, DefaultKey, {})
          IN  (db' = out.db /\ clock' = out.clock /\ response' = out.response)
              => /\ response'.handler = IF r.method = "PUT"
                                        THEN "update_space_endpoint"
                                        ELSE "delete_space_endpoint"
                 /\ response'.args.space_id = IdAtEnd(r.url)
      ]_vars

\* C8: after any sequence of create_student and add_test_students calls no
\* two students rows have the same student_number, and create_student with a
\* student_number that already exists returns False and leaves the students
\* table unchanged.
C8_StudentNumbersStayUnique ==
    [][ /\ \A a, b \in db'.students :
              a.student_id # b.student_id => a.student_number # b.student_number
        /\ ( /\ response'.handler = "create_student"
              /\ response'.args.student_number
                    \in {st.student_number : st \in db.students} )
           => ( response'.status = "False" /\ db'.students = db.students )
      ]_vars

\* create_student was refused for a number add_test_students had stored
C8_Witness ==
    /\ response.handler = "create_student"
    /\ response.status = "False"
    /\ response.args.student_number = Alice[1]
    /\ Cardinality(db.students) = Len(TestStudents)
    /\ \E st \in db.students :
          st.student_number = Alice[1] /\ st.encrypted_name # Alice[2]

\* the names of the spaces other than space_id
OtherNames(d, space_id) ==
    {sp.space_name : sp \in {x \in d.spaces : x.space_id # space_id}}

\* C9: after any sequence of create_space and update_space calls no two
\* spaces rows have the same space_name; creating a space with a name that
\* exists fails with 400 and renaming a space to the name of another space
\* fails with 404, and both leave the spaces table unchanged.
C9_SpaceNamesStayUnique ==
    [][ /\ \A a, b \in db'.spaces :
              a.space_id # b.space_id => a.space_name # b.space_name
        /\ ( /\ response'.handler = "create_space_endpoint"
              /\ response'.args.space_name \in OtherNames(db, 0) )
           => ( response'.code = 400 /\ db'.spaces = db.spaces )
        /\ ( /\ response'.handler = "update_space_endpoint"
              /\ response'.args.space_name
                    \in OtherNames(db, response'.args.space_id) )
           => ( response'.code = 404 /\ db'.spaces = db.spaces )
      ]_vars

\* an update_space asked for the name another space holds and was refused:
\* both spaces are there under their own names
C9_Witness ==
    /\ response.handler = "update_space_endpoint"
    /\ response.code = 404
    /\ response.args.space_name \in OtherNames(db, response.args.space_id)
    /\ \E sp \in db.spaces :
          /\ sp.space_id = response.args.space_id
          /\ sp.space_name # response.args.space_name

\* the students a quick_checkin response was built for
Subject(d, r) ==
    {st \in d.students : /\ r.handler = "quick_checkin"
                         /\ st.student_number = r.args.student_number}

\* C10: GET /checkin-{student_number}-{space_id} for an existing student and
\* space: if the student has an open check-in in another space A, every open
\* row of the student is closed, exactly one new open row is created, for the
\* requested space, and the response has status 'success', action 'moved' and
\* previous_location A's space_name; if the student has no open check-in,
\* exactly one open row is created and the response has status 'success' and
\* action 'checked_in'.
C10_QuickCheckinMovesAndReports ==
    [][ \A st \in Subject(db, response') :
          \A sp \in {x \in db.spaces : x.space_id = response'.args.space_id} :
            LET before == OpenRows(db, st.student_id)
                after == OpenRows(db', st.student_id)
            IN  /\ ( before # {} /\ \A ci \in before : ci.space_id # sp.space_id )
                   => /\ \A ci \in before :
                            \E cj \in RowsOf(db', ci.log_id) : cj.time_out # NULL
                      /\ Cardinality(after) = 1
                      /\ \A cj \in after :
                            cj.space_id = sp.space_id /\ RowsOf(db, cj.log_id) = {}
                      /\ response'.status = "success"
                      /\ response'.action = "moved"
                      /\ \E ci \in before : \E a \in db.spaces :
                            /\ a.space_id = ci.space_id
                            /\ response'.previous_location = a.space_name
                /\ before = {}
                   => /\ Cardinality(after) = 1
                      /\ \A cj \in after :
                            cj.space_id = sp.space_id /\ RowsOf(db, cj.log_id) = {}
                      /\ response'.status = "success"
                      /\ response'.action = "checked_in"
      ]_vars

\* the open rows of check_ins
AllOpen(d) == {ci \in d.check_ins : ci.time_out = NULL}

OccursIgnoringCase(term, text) ==
    LET t == Lower(term)
        x == Lower(text)
    IN  \E k \in 0..Len(x) :
            /\ k + Len(t) <= Len(x)
            /\ \A j \in 1..Len(t) : x[k + j] = t[j]

\* the students of d a search for term is to return
Sought(d, term) ==
    {st \in d.students :
        LET full_name == decrypt_name(st.encrypted_name, DefaultKey)
        IN  \/ OccursIgnoringCase(term, st.student_number)
            \/ OccursIgnoringCase(term, format_display_name(full_name))
            \/ OccursIgnoringCase(term, full_name)}

\* C12: search_students(term) returns exactly the students for which term,
\* letter case ignored, is a substring of the student_number, of the
\* formatted display name or of the full decrypted name: each of them once,
\* and no other student.
C12_SearchReturnsTheMatches ==
    [][ (call'.fn = "search_students" /\ call' # call)
        => /\ {[student_id |-> r.student_id, student_number |-> r.student_number,
                 encrypted_name |-> r.encrypted_name]
                  : r \in {call'.ret[i] : i \in 1..Len(call'.ret)}}
                = Sought(db, call'.args)
           /\ Len(call'.ret) = Cardinality(Sought(db, call'.args))
      ]_vars

\* a search returned a student whom only the full name matches ("cd" is in
\* "Éa c Cd" but not in "Éa C." or "B2") and left out another student
C12_Witness ==
    /\ call.fn = "search_students"
    /\ call.args = <<99, 100>>
    /\ Len(call.ret) = 1
    /\ call.ret[1].student_number = <<66, 50>>
    /\ call.ret[1].display_name = <<201, 97, 32, 67, 46>>
    /\ Cardinality(db.students) >= 2

\* where the parts of a name begin and end: a part is a longest run of
\* characters that are not white space
PartStarts(s) ==
    {i \in 1..Len(s) : ~IsSpace(s[i]) /\ (i = 1 \/ IsSpace(s[i - 1]))}

PartEnds(s) ==
    {i \in 1..Len(s) : ~IsSpace(s[i]) /\ (i = Len(s) \/ IsSpace(s[i + 1]))}

Least(S) == CHOOSE i \in S : \A j \in S : i <= j

Greatest(S) == CHOOSE i \in S : \A j \in S : i >= j

\* C13: format_display_name returns "Unknown" for a name without a part, the
\* part itself for a name of one part, and for a name of two or more parts
\* the first part, a space, the upper-cased first character of the last part
\* and a period - nothing of the middle parts or of the rest of the last part.
C13_DisplayNameIsFirstAndInitial ==
    call.fn = "format_display_name"
    => LET s == call.args
           n == Cardinality(PartStarts(s))
           first == SubSeq(s, Least(PartStarts(s)), Least(PartEnds(s)))
       IN  call.ret =
             IF n = 0 THEN <<85, 110, 107, 110, 111, 119, 110>>
             ELSE IF n = 1 THEN first
             ELSE first \o <<32>> \o UpperChar(s[Greatest(PartStarts(s))]) \o <<46>>

\* a name of three parts was formatted, the middle part is
\* gone and the initial of the last part is its upper case "SS"
C13_Witness ==
    /\ call.fn = "format_display_name"
    /\ call.args = <<97, 32, 98, 9, 223>>
    /\ call.ret = <<97, 32, 83, 83, 46>>

\* the rows of students that hold a name without the "ENC:" mark
PlainRows(d) ==
    {st \in d.students : ~StartsWith(st.encrypted_name, <<69, 78, 67, 58>>)}

\* C14: after migrate_to_encryption has run without a database error every
\* students row's encrypted_name starts with "ENC:"; a row that held plain
\* text decrypts to that text, a row that was encrypted is unchanged, the
\* count reported is the number of rows that held plain text, and a run that
\* follows another reports 0 and changes no row.
C14_MigrationEncryptsPlainRows ==
    [][ ( /\ response'.handler = "migrate_to_encryption"
          /\ response'.status = "success" )
        => /\ PlainRows(db') = {}
           /\ Cardinality(db'.students) = Cardinality(db.students)
           /\ \A st \in db.students :
                 \E new \in db'.students :
                    /\ new.student_id = st.student_id
                    /\ new.student_number = st.student_number
                    /\ st \in PlainRows(db)
                          => decrypt_name(new.encrypted_name, DefaultKey)
                               = st.encrypted_name
                    /\ st \notin PlainRows(db) => new = st
           /\ response'.count = Cardinality(PlainRows(db))
           /\ response.handler = "migrate_to_encryption"
                 => (response'.count = 0 /\ db' = db)
      ]_vars

\* a migration has encrypted two plain names, one of them outside ASCII,
\* beside a row that was encrypted before
C14_Witness ==
    /\ response.handler = "migrate_to_encryption"
    /\ response.count = 2
    /\ \E a, b, c \in db.students :
          /\ a.encrypted_name = encrypt_name(Alice[2], DefaultKey)
          /\ decrypt_name(b.encrypted_name, DefaultKey) = <<26446, 26126>>
          /\ b.encrypted_name # <<26446, 26126>>
          /\ decrypt_name(c.encrypted_name, DefaultKey) = Bob[2]
          /\ StartsWith(c.encrypted_name, ENC_PREFIX)

\* the name a student number was created with
PlainNameOf(student_number) ==
    LET given == {st \in NamedStudents
                    \cup {TestStudents[i] : i \in 1..Len(TestStudents)} :
                        st[1] = student_number}
    IN  (CHOOSE st \in given : TRUE)[2]

Exceptions == {"AttributeError", "ValueError"}

\* the responses of fetch: of a handler, of the listing of endpoints, or of
\* the except clause of fetch
FromFetch(r) == r.handler \in DefaultMethods \cup {"default", "fetch"}

C17_TestEncryptionSucceeds ==
    response.handler = "test_encryption"
        => /\ response.status = "success"
           /\ response.code = 200
           /\ \A name \in TestNames :
                 LET encrypted == encrypt_name(name, DefaultKey)
                 IN  /\ decrypt_name(encrypted, DefaultKey) = name
                     /\ is_encrypted(encrypted)

\* the check_ins rows of d2 that d1 does not hold
Inserted(d1, d2) ==
    {c \in d2.check_ins : \A old \in d1.check_ins : old.log_id # c.log_id}

\* the open check_ins rows of d1 that are closed in d2
Closed(d1, d2) ==
    {c \in AllOpen(d1) : \E new \in d2.check_ins :
        new.log_id = c.log_id /\ new.time_out # NULL}

\* C18: the response of quick_checkin and of quick_checkout agrees with the
\* effect on the database: an error response (400, 404 or 500) only if no
\* check_ins row was inserted and none closed; whenever a row was inserted
\* or closed the response has status "success".
C18_ResponseAgreesWithEffect ==
    [][ response'.handler \in {"quick_checkin", "quick_checkout"}
        => /\ response'.code \in {400, 404, 500}
                => (Inserted(db, db') = {} /\ Closed(db, db') = {})
           /\ (Inserted(db, db') # {} \/ Closed(db, db') # {})
                => response'.status = "success"
      ]_vars

\* the students row a quick_checkin or quick_checkout call names
Student(d, r) == {st \in d.students : st.student_number = r.args.student_number}

\* the open rows of the student in the space the call names
OpenHere(d, r, st) ==
    {ci \in OpenRows(d, st.student_id) : ci.space_id = r.args.space_id}

====
